---- MODULE Spec2Model ----
(***************************************************************************)
(* Code execution engine of klpod221/code-runner: executeCode (the         *)
(* workspace lifecycle and the bounded-time compile and run steps), the    *)
(* executor's POST /execute/code route, the test case evaluator with its   *)
(* summary, the cleanup of stored code executions, the runCode and         *)
(* runTestCases handlers of the API, and its cache of settings.            *)
(*                                                                         *)
(* A JavaScript string is a sequence of tokens, "" being << >>.  An async  *)
(* function is one action per segment between two awaits; the I/O an       *)
(* await waits for takes effect in the action that resumes after it.       *)
(***************************************************************************)
EXTENDS Integers, Sequences, FiniteSets, TLC

\* Bounds of the model.
NumCalls == 2        \* executeCode invocations that may overlap
MaxExecutions == 2   \* executeCode invocations in one behaviour
MaxTestCases == 2    \* test cases in one call of executeTestCases
MaxLen == 3          \* characters of an output that is compared
MaxRecords == 2      \* code executions ever stored
MaxNow == 2          \* days the clock of the store runs for
NumGetters == 2      \* getSetting invocations that may overlap
MaxUpdates == 2      \* updateSetting invocations in one behaviour
MaxClock == 2        \* units of 40 s the clock of the settings cache runs for

Calls == 1..NumCalls

VARIABLES
  pc,        \* pc[c]: where call c of executeCode stands
  args,      \* args[c]: { language, files, stdin, executionId }
  tempDir,   \* tempDir[c]: name of the call's directory under BASE_TEMP_DIR
  idx,       \* idx[c]: position of the `for (const file of files)` loop
  result,    \* result[c]: the `result` object of the call
  err,       \* err[c]: message of the error the call throws, << >> if none
  outcome,   \* outcome[c]: "none", "returned" or "thrown"
  proc,      \* proc[c]: the child process the call awaits
  started,   \* started[c]: the child processes the call has spawned so far
  rm,        \* rm[c]: "none", "ok" or "failed": fs.remove(tempDir) of the finally block
  seen,      \* seen[c]: what the compile and the run process of the call ended with
  fsOps,     \* fsOps[c]: directories created and files written by the call
  dirs,      \* directories that exist under BASE_TEMP_DIR
  files,     \* files[path]: content of the file at path (relative to BASE_TEMP_DIR)
  calls,     \* number of executeCode invocations so far
  route,     \* POST /execute/code: "idle", or "executing" while it awaits executeCode
  req,       \* req.body of the request the route handles or has answered last
  response,  \* status of the response to req, 0 while there is none
  tpc,       \* executeTestCases: "idle", "loop", "awaiting", "returned", and
             \* "summarised" once its caller has the summary
  batch,     \* its arguments { language, files, testCases }
  ti,        \* its loop variable i, counted from 1
  results,   \* its `results` array
  summary,   \* what calculateTestResults made of the returned results
  now,       \* the date, in days
  executions,\* the CodeExecution rows:
             \* executions[id] = { createdAt, isPersistent, status }
  testRows,  \* the testCase rows: testRows[id] = { codeExecutionId }, at most
             \* one for a code execution, under the id of that execution
  cpc,       \* cleanupOldExecutions: "idle", the await it stands at, or "done"
  cl,        \* its arguments and locals
  stats,     \* what it returned
  created,   \* number of CodeExecution rows created so far
  hpc,       \* runCode / runTestCases: "idle", the await it stands at, or
             \* "responded"
  hreq,      \* req.body of the request it handles, with the handler's name
  hid,       \* codeExecution.id of the row it created, 0 while there is none
  hres,      \* status of the response it sent, 0 while there is none
  settingRow,       \* value of the Settings row with the key, "" while there is none
  settingsCache,    \* settingsCache[key], "" while it is undefined
  cacheLastUpdated, \* 0 for null, or the clock's reading plus one
  clock,            \* Date.now(), in units of 40 s
  sget,             \* sget[g]: where call g of getSetting(key) stands, what its
                    \* query read and what it returned
  supd              \* updateSetting(key, value): where it stands, with its value

\* state of executeCode and of the file system
engineVars == <<pc, args, tempDir, idx, result, err, outcome, proc, started, rm,
                seen, fsOps, dirs, files, calls>>

\* state of the executor's route
routeVars == <<route, req, response>>

\* state of executeTestCases
testVars == <<tpc, batch, ti, results, summary>>

\* the store and cleanupOldExecutions
adminVars == <<now, executions, testRows, cpc, cl, stats, created>>

\* state of the runCode and runTestCases handlers
ctlVars == <<hpc, hreq, hid, hres>>

\* the handlers of the API and its services
\* state of the settings service
settingsVars == <<settingRow, settingsCache, cacheLastUpdated, clock, sget, supd>>

serviceVars == <<ctlVars, settingsVars>>

\* everything a step of executeCode leaves alone
outerVars == <<routeVars, testVars, adminVars, serviceVars>>

vars == <<engineVars, routeVars, testVars, adminVars, serviceVars>>

----------------------------------------------------------------------------
\* JavaScript helpers

\* a || b on strings
StrOr(a, b) == IF a = << >> THEN b ELSE a

\* error.code || 1: a missing (null) code and 0 are falsy
CodeOr1(e) == IF e.hasCode /\ e.code # 0 THEN e.code ELSE 1

TimeoutMarker == "Execution timed out"

----------------------------------------------------------------------------
\* Language table.  Time is counted in units of 5000 ms: the timeouts are
\* 10000 ms and, for java, 15000 ms.
languageConfigs ==
  [ nodejs |-> [extension |-> ".js",   compile |-> "",      run |-> "node",    timeout |-> 2],
    python |-> [extension |-> ".py",   compile |-> "",      run |-> "python3", timeout |-> 2],
    java   |-> [extension |-> ".java", compile |-> "javac", run |-> "java",    timeout |-> 3],
    cpp    |-> [extension |-> ".cpp",  compile |-> "g++",   run |-> "./",      timeout |-> 2],
    c      |-> [extension |-> ".c",    compile |-> "gcc",   run |-> "./",      timeout |-> 2] ]

\* Mutant of Supported: every language key passes the check
SupportedAny(language) == TRUE

\* !!languageConfigs[language]
Supported(language) == language \in DOMAIN languageConfigs

HasCompile(language) == languageConfigs[language].compile # ""

----------------------------------------------------------------------------
\* File names and paths.  A file name is [segs, stem, ext]: the directory
\* segments it was split into at "/", and the last segment as stem and
\* extension.  A leading "" segment is the root of an absolute name.

Name(segs, stem, ext) == [segs |-> segs, stem |-> stem, ext |-> ext]

RECURSIVE Normalize(_, _)
\* path.join: "" and "." segments are dropped and ".." removes the segment
\* before it; a path that leaves BASE_TEMP_DIR keeps its leading "..".
Normalize(base, segs) ==
  IF segs = << >> THEN base
  ELSE LET s == Head(segs) IN
       IF s = "" \/ s = "." THEN Normalize(base, Tail(segs))
       ELSE IF s = ".."
         THEN IF base # << >> /\ base[Len(base)] # ".."
                THEN Normalize(SubSeq(base, 1, Len(base) - 1), Tail(segs))
                ELSE Normalize(Append(base, ".."), Tail(segs))
         ELSE Normalize(Append(base, s), Tail(segs))

\* path.join(tempDir, file.name), relative to BASE_TEMP_DIR
JoinPath(dir, name) == Normalize(<<dir>>, Append(name.segs, name.stem \o name.ext))

ParentOf(path) == SubSeq(path, 1, Len(path) - 1)

\* The directory a path lies in exists: BASE_TEMP_DIR itself, a directory
\* under it that was created, or a directory outside it (os.tmpdir() and up).
ParentExists(path, ds) ==
  LET p == ParentOf(path) IN
    \/ p = << >>
    \/ Len(p) = 1 /\ p[1] \in ds
    \/ p # << >> /\ \A i \in 1..Len(p) : p[i] = ".."

Inside(dir, path) == Len(path) > 1 /\ path[1] = dir

----------------------------------------------------------------------------
\* Child processes (util.promisify(child_process.exec))

NoProc == [step |-> "none"]

NoExit == [kind |-> "none"]

\* exec's promise resolves: exit code 0 and no signal
Resolved(out, errOut) ==
  [kind |-> "resolved", stdout |-> out, stderr |-> errOut, message |-> << >>,
   killed |-> FALSE, signal |-> "", hasCode |-> TRUE, code |-> 0]

\* the child exits with a non-zero code
Exited(n, out, errOut) ==
  [kind |-> "exit", stdout |-> out, stderr |-> errOut,
   message |-> <<"Command failed">> \o errOut,
   killed |-> FALSE, signal |-> "", hasCode |-> TRUE, code |-> n]

\* the child is ended by a signal nobody but itself sent: code is null
Signalled(sig, out, errOut) ==
  [kind |-> "signal", stdout |-> out, stderr |-> errOut,
   message |-> <<"Command failed">> \o errOut,
   killed |-> FALSE, signal |-> sig, hasCode |-> FALSE, code |-> 0]

\* options.timeout expired: exec sent killSignal (SIGTERM) to the child
TimedOut(out, errOut) ==
  [kind |-> "timeout", stdout |-> out, stderr |-> errOut,
   message |-> <<"Command failed">> \o errOut,
   killed |-> TRUE, signal |-> "SIGTERM", hasCode |-> FALSE, code |-> 0]

\* the shell could not be spawned (cwd does not exist): code is the name of
\* the system error, written here as its errno
SpawnError ==
  [kind |-> "spawn", stdout |-> << >>, stderr |-> << >>,
   message |-> <<"spawn /bin/sh ENOENT">>,
   killed |-> FALSE, signal |-> "", hasCode |-> TRUE, code |-> -2]

\* the system refuses another process (EAGAIN, written here as its errno):
\* like SpawnError, with the name of that system error as code
SpawnRefused ==
  [kind |-> "spawn", stdout |-> << >>, stderr |-> << >>,
   message |-> <<"spawn /bin/sh EAGAIN">>,
   killed |-> FALSE, signal |-> "", hasCode |-> TRUE, code |-> -11]

\* exec's maxBuffer (1 MiB) is exceeded: exec ends the child and rejects with
\* a RangeError that has the code "ERR_CHILD_PROCESS_STDIO_MAXBUFFER"
\* (written here as -1) and neither `killed` nor `signal`
Overflowed(out, errOut) ==
  [kind |-> "maxbuffer", stdout |-> out, stderr |-> errOut,
   message |-> <<"stdout maxBuffer length exceeded">>,
   killed |-> FALSE, signal |-> "", hasCode |-> TRUE, code |-> -1]

\* the settlement e of a child process that took ms units of time
Lasting(e, ms) ==
  [kind |-> e.kind, stdout |-> e.stdout, stderr |-> e.stderr, message |-> e.message,
   killed |-> e.killed, signal |-> e.signal, hasCode |-> e.hasCode, code |-> e.code,
   ms |-> ms, sinceStart |-> 0]

\* What the compiler may end with, for the process p
CompileExits(p) ==
  IF ~p.spawned THEN {Lasting(SpawnError, 0)}
  ELSE IF p.source = "missing"
    THEN {Lasting(Exited(1, << >>, <<"no such file">>), 0)}
    ELSE { Lasting(Resolved(<< >>, << >>), 0),
           Lasting(Resolved(<< >>, << >>), 1),
           Lasting(Resolved(<<"note">>, << >>), 1),
           Lasting(Resolved(<< >>, <<"warning">>), 1),
           Lasting(Exited(1, << >>, <<"diagnostic">>), 1),
           Lasting(Exited(2, << >>, <<"diagnostic">>), 0),
           Lasting(Exited(1, << >>, << >>), 0),
           Lasting(TimedOut(<< >>, << >>), p.timeout),
           Lasting(TimedOut(<< >>, <<"diagnostic">>), p.timeout),
           Lasting(SpawnRefused, 0) }

\* What the program may end with, for the process p: p.source is the content
\* of the program that runs, "halt" a program that ends by itself and "loop"
\* one that never does (and stays within exec's output buffer)
RunExits(p) ==
  IF ~p.spawned THEN {Lasting(SpawnError, 0)}
  ELSE IF p.source = "missing" \/ ~p.stdinOk
    THEN {Lasting(Exited(2, << >>, <<"no such file">>), 0)}
    ELSE IF p.source = "loop"
      THEN { Lasting(TimedOut(<< >>, << >>), p.timeout),
             Lasting(TimedOut(<<"out">>, <<"trace">>), p.timeout) }
      ELSE { Lasting(Resolved(<<"out", "\n">>, << >>), 0),
             Lasting(Resolved(<<"out", "\n">>, << >>), 1),
             Lasting(Resolved(<<"out">>, <<"trace">>), 1),
             Lasting(Resolved(<< >>, << >>), 0),
             Lasting(Exited(1, << >>, <<"trace">>), 1),
             Lasting(Exited(3, <<"out">>, << >>), 0),
             Lasting(Signalled("SIGTERM", <<"out">>, << >>), 1),
             Lasting(Signalled("SIGSEGV", << >>, << >>), 0),
             Lasting(Overflowed(<<"out">>, << >>), 1) }

----------------------------------------------------------------------------
\* Inputs

MainName  == Name(<< >>, "main", ".src")
EvilName  == Name(<<"..">>, "escape", ".src")
AbsName   == Name(<<"", "etc">>, "main", ".src")

File(name, content, isMain) == [name |-> name, content |-> content, isMain |-> isMain]

StdinName == Name(<< >>, "input", ".txt")

FileLists ==
  { << >>,
    << File(MainName, "halt", TRUE) >>,
    << File(MainName, "loop", FALSE) >>,
    << File(EvilName, "halt", FALSE), File(MainName, "halt", TRUE) >>,
    << File(MainName, "halt", TRUE), File(AbsName, "halt", FALSE) >> }

Languages == {"python", "cpp", "ruby"}

Stdins == {<< >>, <<"in">>}

\* executionId as the caller passes it: "" lets executeCode draw a uuid
ExecutionIds == {"", "shared"}

Inputs ==
  [language : Languages, files : FileLists, stdin : Stdins, executionId : ExecutionIds]

\* calls whose files have the name of the stdin file, or one name twice
StagingInputs ==
  [language : {"python", "cpp"},
   files : { << File(MainName, "halt", TRUE), File(StdinName, "data", FALSE) >>,
             << File(MainName, "loop", TRUE), File(MainName, "halt", FALSE) >>,
             << File(MainName, "halt", TRUE) >> },
   stdin : Stdins, executionId : {""}]

NoArgs == [language |-> "", files |-> << >>, stdin |-> << >>, executionId |-> ""]

\* req.body of POST /execute/code: hasFiles is false when it has no `files`
\* or `files` is not an array
Bodies ==
  [language : {"", "cpp", "ruby"}, hasFiles : BOOLEAN,
   files : {<< >>, << File(MainName, "halt", TRUE) >>},
   stdin : Stdins, executionId : ExecutionIds]

\* A test case { input, expectedOutput, order }
TestCase(input, expected, order) ==
  [input |-> input, expectedOutput |-> expected, order |-> order]

TestCases ==
  { TestCase(<< >>, <<"out">>, 1),
    TestCase(<<"in">>, <<"out">>, 0),
    TestCase(<<"in">>, <<"nope">>, 1) }

\* the arrays of at most n test cases, no test case twice
TestCaseLists(n) ==
  UNION { {l \in [1..k -> TestCases] : \A i, j \in 1..k : l[i] = l[j] => i = j} :
          k \in 0..n }

\* an interpreted program with up to MaxTestCases test cases, or a compiled
\* one with a single test case
Batches ==
  {b \in [language : {"python", "cpp"}, files : {<< File(MainName, "halt", TRUE) >>},
          testCases : TestCaseLists(MaxTestCases)] :
     b.language = "cpp" => Len(b.testCases) = 1}

NoBatch == [language |-> "", files |-> << >>, testCases |-> << >>]

\* a quotient of two numbers, kept exact
Ratio(n, d) == [num |-> n, den |-> d]

NoSummary ==
  [totalTests |-> 0, passedTests |-> 0, failedTests |-> 0,
   successRate |-> Ratio(0, 1), totalExecutionTime |-> 0,
   avgExecutionTime |-> Ratio(0, 1), allPassed |-> FALSE]

\* cleanupOldExecutions when it is not running
NoCleanup ==
  [hasDays |-> FALSE, days |-> 0, dryRun |-> FALSE, ignorePersistent |-> FALSE,
   cutoffDate |-> 0, executionCount |-> 0, executionIds |-> {}, testCaseCount |-> 0,
   deletedTestCases |-> 0, deletedExecutions |-> 0, thrown |-> FALSE,
   destroyedFor |-> {}]

NoStats ==
  [cutoffDate |-> 0, identifiedExecutions |-> 0, identifiedTestCases |-> 0,
   deletedExecutions |-> 0, deletedTestCases |-> 0, dryRun |-> FALSE,
   executionIds |-> {}]

\* JavaScript values of a request body: undefined, a string, a number
Undef == [type |-> "undefined", str |-> << >>]
Str(s) == [type |-> "string", str |-> s]
Num == [type |-> "number", str |-> << >>]

NoRequest ==
  [handler |-> "", languageId |-> 0, code |-> Undef, stdin |-> Undef,
   testCases |-> << >>, isBase64Encoded |-> FALSE]

Getters == 1..NumGetters

\* a call of getSetting: read is what its query found in the store ("" for
\* no row, "error" for a rejected query), ret what the call returned ("" for
\* the default value), after the number of updateSetting calls that had
\* completed, all of them, when the call began
NoGet == [pc |-> "idle", read |-> "", ret |-> "", after |-> -1]

\* the call of updateSetting: started and completed count its calls
NoUpdate ==
  [pc |-> "idle", value |-> "", created |-> FALSE, started |-> 0, completed |-> 0,
   last |-> ""]

NoBody ==
  [language |-> "", hasFiles |-> FALSE, files |-> << >>, stdin |-> << >>,
   executionId |-> ""]

----------------------------------------------------------------------------
\* executeCode

InitResult ==
  [stdout |-> << >>, stderr |-> << >>, exitCode |-> 0,
   compilationOutput |-> << >>, executionTime |-> 0, success |-> FALSE]

\* files.find((file) => file.isMain) || files[0]
MainFile(fl) ==
  IF \E i \in 1..Len(fl) : fl[i].isMain
    THEN fl[CHOOSE i \in 1..Len(fl) :
              fl[i].isMain /\ \A j \in 1..(i - 1) : ~fl[j].isMain]
    ELSE fl[1]

\* file.replace(".cpp", ""): the name without the language's extension
StripExt(name) == [name EXCEPT !.ext = ""]

\* content of the file at path in the file system fs, "missing" if none
ContentAt(fs, path) == IF path \in DOMAIN fs THEN fs[path] ELSE "missing"

\* The child process exec spawns for the compile command, in file system fs
CompileProc(c, ds, fs) ==
  [step |-> "compile", cwd |-> tempDir[c],
   cmd |-> <<languageConfigs[args[c].language].compile, MainFile(args[c].files).name>>,
   timeout |-> languageConfigs[args[c].language].timeout,
   spawned |-> tempDir[c] \in ds,
   stdinOk |-> TRUE,
   source |-> ContentAt(fs, JoinPath(tempDir[c], MainFile(args[c].files).name))]

\* The child process exec spawns for the run command: a compiled language
\* runs the binary the compiler wrote, the others the main file
RunProc(c, ds, fs) ==
  LET main == MainFile(args[c].files).name
      prog == IF HasCompile(args[c].language) THEN StripExt(main) ELSE main
  IN [step |-> "run", cwd |-> tempDir[c],
      cmd |-> <<languageConfigs[args[c].language].run, prog, args[c].stdin # << >>>>,
      timeout |-> languageConfigs[args[c].language].timeout,
      spawned |-> tempDir[c] \in ds,
      stdinOk |-> args[c].stdin = << >> \/ <<tempDir[c], "input.txt">> \in DOMAIN fs,
      source |-> ContentAt(fs, JoinPath(tempDir[c], prog))]

\* fs.remove(dir): the directory and everything below it
RemoveTree(fs, dir) ==
  [p \in {q \in DOMAIN fs : ~Inside(dir, q)} |-> fs[p]]

Init ==
  /\ pc = [c \in Calls |-> "idle"]
  /\ args = [c \in Calls |-> NoArgs]
  /\ tempDir = [c \in Calls |-> ""]
  /\ idx = [c \in Calls |-> 0]
  /\ result = [c \in Calls |-> InitResult]
  /\ err = [c \in Calls |-> << >>]
  /\ outcome = [c \in Calls |-> "none"]
  /\ proc = [c \in Calls |-> NoProc]
  /\ started = [c \in Calls |-> << >>]
  /\ rm = [c \in Calls |-> "none"]
  /\ seen = [c \in Calls |-> [compile |-> NoExit, run |-> NoExit]]
  /\ fsOps = [c \in Calls |-> {}]
  /\ dirs = {}
  /\ files = << >>
  /\ calls = 0
  /\ route = "idle"
  /\ req = NoBody
  /\ response = 0
  /\ tpc = "idle"
  /\ batch = NoBatch
  /\ ti = 0
  /\ results = << >>
  /\ summary = NoSummary
  /\ now = 0
  /\ executions = << >>
  /\ testRows = << >>
  /\ cpc = "idle"
  /\ cl = NoCleanup
  /\ stats = NoStats
  /\ created = 0
  /\ hpc = "idle"
  /\ hreq = NoRequest
  /\ hid = 0
  /\ hres = 0
  /\ settingRow = ""
  /\ settingsCache = ""
  /\ cacheLastUpdated = 0
  /\ clock = 0
  /\ sget = [g \in Getters |-> NoGet]
  /\ supd = NoUpdate

\* Mutant of Throw: the error leaves executeCode without the finally block
ThrowPastFinally(c, msg) ==
  /\ pc' = [pc EXCEPT ![c] = "done"]
  /\ err' = [err EXCEPT ![c] = msg]
  /\ outcome' = [outcome EXCEPT ![c] = "thrown"]

\* throw new Error(msg) inside the try block: control passes to finally
Throw(c, msg) ==
  /\ pc' = [pc EXCEPT ![c] = "cleanup"]
  /\ err' = [err EXCEPT ![c] = msg]
  /\ outcome' = [outcome EXCEPT ![c] = "thrown"]

\* return result inside the try block: control passes to finally
ReturnResult(c, r) ==
  /\ pc' = [pc EXCEPT ![c] = "cleanup"]
  /\ result' = [result EXCEPT ![c] = r]
  /\ outcome' = [outcome EXCEPT ![c] = "returned"]

\* uuidv4(): the n-th invocation draws a value no other invocation draws
uuidv4(n) == "uuid-" \o ToString(n)

\* executeCode is called: the language check, the execution id and tempDir,
\* up to the first await
Call(c, in) ==
  /\ pc[c] = "idle"
  /\ calls < MaxExecutions
  /\ calls' = calls + 1
  /\ args' = [args EXCEPT ![c] = in]
  /\ IF ~Supported(in.language)
       THEN /\ pc' = [pc EXCEPT ![c] = "done"]
            /\ err' = [err EXCEPT ![c] = <<"Unsupported language", in.language>>]
            /\ outcome' = [outcome EXCEPT ![c] = "thrown"]
            /\ UNCHANGED tempDir
       ELSE /\ pc' = [pc EXCEPT ![c] = "ensureBase"]
            /\ IF in.executionId # ""
                 THEN tempDir' = [tempDir EXCEPT ![c] = in.executionId]
                 ELSE tempDir' = [tempDir EXCEPT ![c] = uuidv4(calls + 1)]
            /\ UNCHANGED <<err, outcome>>
  /\ UNCHANGED <<idx, result, proc, started, rm, seen, fsOps, dirs, files>>

\* await fs.ensureDir(BASE_TEMP_DIR)
EnsureBase(c) ==
  /\ pc[c] = "ensureBase"
  /\ \/ /\ pc' = [pc EXCEPT ![c] = "ensureDir"]
        /\ UNCHANGED <<err, outcome>>
     \/ Throw(c, <<"EACCES">>)
  /\ UNCHANGED outerVars
  /\ UNCHANGED <<args, tempDir, idx, result, proc, started, rm, seen, fsOps,
                 dirs, files, calls>>

\* await fs.ensureDir(tempDir)
EnsureDir(c) ==
  /\ pc[c] = "ensureDir"
  /\ \/ /\ pc' = [pc EXCEPT ![c] = "pathExists"]
        /\ dirs' = dirs \cup {tempDir[c]}
        /\ fsOps' = [fsOps EXCEPT ![c] = @ \cup {<<tempDir[c]>>}]
        /\ UNCHANGED <<err, outcome>>
     \/ /\ Throw(c, <<"EACCES">>)
        /\ UNCHANGED <<dirs, fsOps>>
  /\ UNCHANGED outerVars
  /\ UNCHANGED <<args, tempDir, idx, result, proc, started, rm, seen, files, calls>>

\* await fs.pathExists(tempDir), then the main file is looked up
PathExists(c) ==
  /\ pc[c] = "pathExists"
  /\ IF tempDir[c] \notin dirs
       THEN /\ Throw(c, <<"Failed to create temporary directory">>)
            /\ UNCHANGED idx
       ELSE IF args[c].files = << >>
         THEN /\ Throw(c, <<"No files provided">>)
              /\ UNCHANGED idx
         ELSE /\ pc' = [pc EXCEPT ![c] = "write"]
              /\ idx' = [idx EXCEPT ![c] = 1]
              /\ UNCHANGED <<err, outcome>>
  /\ UNCHANGED outerVars
  /\ UNCHANGED <<args, tempDir, result, proc, started, rm, seen, fsOps, dirs,
                 files, calls>>

\* Mutant of Spawn: the program is started without waiting for a compiler
SpawnRunAtOnce(c, ds, fs) ==
  /\ pc' = [pc EXCEPT ![c] = "run"]
  /\ proc' = [proc EXCEPT ![c] = RunProc(c, ds, fs)]
  /\ started' = [started EXCEPT ![c] = Append(@, "run")]
  /\ result' = [result EXCEPT ![c] = InitResult]

\* After staging: result is initialised and the first child process is
\* spawned, the compiler for a compiled language
Spawn(c, ds, fs) ==
  LET p == IF HasCompile(args[c].language) THEN CompileProc(c, ds, fs)
                                           ELSE RunProc(c, ds, fs)
  IN /\ pc' = [pc EXCEPT ![c] = p.step]
     /\ proc' = [proc EXCEPT ![c] = p]
     /\ started' = [started EXCEPT ![c] = Append(@, p.step)]
     /\ result' = [result EXCEPT ![c] = InitResult]

\* After the last file: stdin is written when there is one
AfterFiles(c, ds, fs) ==
  IF args[c].stdin # << >>
    THEN /\ pc' = [pc EXCEPT ![c] = "stdin"]
         /\ UNCHANGED <<proc, started, result>>
    ELSE Spawn(c, ds, fs)

\* One turn of the loop: await fs.writeFile(filePath, file.content) and, for
\* a compiled language, await fs.chmod(filePath, 0o755)
WriteFile(c) ==
  /\ pc[c] = "write"
  /\ LET file == args[c].files[idx[c]]
         path == JoinPath(tempDir[c], file.name)
         fs   == (path :> file.content) @@ files
         msg  == <<"Failed to write file", file.name.stem>>
     IN \/ \* writeFile fails
           /\ Throw(c, msg)
           /\ UNCHANGED <<files, fsOps, idx, proc, started, result>>
        \/ \* writeFile succeeds and chmod fails
           /\ ParentExists(path, dirs)
           /\ HasCompile(args[c].language)
           /\ files' = fs
           /\ fsOps' = [fsOps EXCEPT ![c] = @ \cup {path}]
           /\ Throw(c, msg)
           /\ UNCHANGED <<idx, proc, started, result>>
        \/ /\ ParentExists(path, dirs)
           /\ files' = fs
           /\ fsOps' = [fsOps EXCEPT ![c] = @ \cup {path}]
           /\ idx' = [idx EXCEPT ![c] = @ + 1]
           /\ IF idx[c] < Len(args[c].files)
                THEN UNCHANGED <<pc, proc, started, result>>
                ELSE AfterFiles(c, dirs, fs)
           /\ UNCHANGED <<err, outcome>>
  /\ UNCHANGED outerVars
  /\ UNCHANGED <<args, tempDir, rm, seen, dirs, calls>>

\* await fs.writeFile(path.join(tempDir, "input.txt"), stdin)
WriteStdin(c) ==
  /\ pc[c] = "stdin"
  /\ LET path == <<tempDir[c], "input.txt">>
         fs   == (path :> "stdin") @@ files
     IN \/ /\ Throw(c, <<"Failed to write stdin file">>)
           /\ UNCHANGED <<files, fsOps, proc, started, result>>
        \/ /\ ParentExists(path, dirs)
           /\ files' = fs
           /\ fsOps' = [fsOps EXCEPT ![c] = @ \cup {path}]
           /\ Spawn(c, dirs, fs)
           /\ UNCHANGED <<err, outcome>>
  /\ UNCHANGED outerVars
  /\ UNCHANGED <<args, tempDir, idx, rm, seen, dirs, calls>>

\* Mutant of AfterCompile: the compiler's stderr is not looked at
AfterCompileIgnoringStderr(r, e) ==
  IF e.kind = "resolved"
    THEN [next |-> "run",
          result |-> [r EXCEPT !.compilationOutput = e.stdout]]
    ELSE [next |-> "return",
          result |-> [r EXCEPT !.stderr = StrOr(e.stderr, e.message),
                               !.exitCode = CodeOr1(e),
                               !.success = FALSE]]

\* The result object after the compiler ended with e; "run" marks that the
\* run step comes next
AfterCompile(r, e) ==
  IF e.kind = "resolved"
    THEN IF e.stderr # << >>
      THEN [next |-> "return",
            result |-> [r EXCEPT !.compilationOutput = e.stdout,
                                 !.stderr = e.stderr,
                                 !.exitCode = 1,
                                 !.success = FALSE]]
      ELSE [next |-> "run",
            result |-> [r EXCEPT !.compilationOutput = e.stdout]]
    ELSE [next |-> "return",
          result |-> [r EXCEPT !.stderr = StrOr(e.stderr, e.message),
                               !.exitCode = CodeOr1(e),
                               !.success = FALSE]]

\* await execPromise(compileCmd, ...) settles
CompileDone(c) ==
  /\ pc[c] = "compile"
  /\ \E e \in CompileExits(proc[c]) :
       LET a   == AfterCompile(result[c], e)
           bin == JoinPath(tempDir[c], StripExt(MainFile(args[c].files).name))
           fs  == IF e.kind = "resolved" /\ tempDir[c] \in dirs
                    THEN (bin :> proc[c].source) @@ files
                    ELSE files
       IN /\ seen' = [seen EXCEPT ![c].compile = e]
          /\ files' = fs
          /\ IF a.next = "run"
               THEN /\ pc' = [pc EXCEPT ![c] = "run"]
                    /\ proc' = [proc EXCEPT ![c] = RunProc(c, dirs, fs)]
                    /\ started' = [started EXCEPT ![c] = Append(@, "run")]
                    /\ result' = [result EXCEPT ![c] = a.result]
                    /\ UNCHANGED outcome
               ELSE /\ ReturnResult(c, a.result)
                    /\ proc' = [proc EXCEPT ![c] = NoProc]
                    /\ UNCHANGED started
  /\ UNCHANGED outerVars
  /\ UNCHANGED <<args, tempDir, idx, err, rm, fsOps, dirs, calls>>

\* Mutant of AfterRun: the timeout marker is not appended
AfterRunWithoutMarker(r, e) ==
  IF e.kind = "resolved"
    THEN [r EXCEPT !.stdout = e.stdout,
                   !.stderr = e.stderr,
                   !.executionTime = e.sinceStart,
                   !.exitCode = 0,
                   !.success = TRUE]
    ELSE [r EXCEPT !.stdout = e.stdout,
                   !.stderr = StrOr(e.stderr, e.message),
                   !.executionTime = e.sinceStart,
                   !.exitCode = CodeOr1(e),
                   !.success = FALSE]

\* Mutant of AfterRun: success is set before the outcome of the run is known
AfterRunSuccessFirst(r, e) ==
  IF e.kind = "resolved"
    THEN [r EXCEPT !.stdout = e.stdout,
                   !.stderr = e.stderr,
                   !.executionTime = e.sinceStart,
                   !.exitCode = 0,
                   !.success = TRUE]
    ELSE [r EXCEPT !.stdout = e.stdout,
                   !.stderr = IF e.signal = "SIGTERM" \/ e.killed
                                THEN Append(StrOr(e.stderr, e.message), TimeoutMarker)
                                ELSE StrOr(e.stderr, e.message),
                   !.executionTime = e.sinceStart,
                   !.exitCode = CodeOr1(e),
                   !.success = TRUE]

\* The result object after the program ended with e
AfterRun(r, e) ==
  IF e.kind = "resolved"
    THEN [r EXCEPT !.stdout = e.stdout,
                   !.stderr = e.stderr,
                   !.executionTime = e.sinceStart,
                   !.exitCode = 0,
                   !.success = TRUE]
    ELSE [r EXCEPT !.stdout = e.stdout,
                   !.stderr = IF e.signal = "SIGTERM" \/ e.killed
                                THEN Append(StrOr(e.stderr, e.message), TimeoutMarker)
                                ELSE StrOr(e.stderr, e.message),
                   !.executionTime = e.sinceStart,
                   !.exitCode = CodeOr1(e),
                   !.success = FALSE]

\* process.hrtime(startTime) when the program has ended with e: startTime is
\* taken before the compile step, and no other await lies between the two
SinceStart(c, e) ==
  (IF seen[c].compile.kind # "none" THEN seen[c].compile.ms ELSE 0) + e.ms

\* await execPromise(runCmd, ...) settles
RunDone(c) ==
  /\ pc[c] = "run"
  /\ \E e \in RunExits(proc[c]) :
       /\ seen' = [seen EXCEPT ![c].run = e]
       /\ ReturnResult(c, AfterRun(result[c],
                                   [e EXCEPT !.sinceStart = SinceStart(c, e)]))
  /\ proc' = [proc EXCEPT ![c] = NoProc]
  /\ UNCHANGED outerVars
  /\ UNCHANGED <<args, tempDir, idx, err, started, rm, fsOps, dirs, files, calls>>

\* Mutant of Cleanup: the error of fs.remove leaves the finally block
CleanupPropagating(c) ==
  /\ pc[c] = "cleanup"
  /\ pc' = [pc EXCEPT ![c] = "done"]
  /\ \/ /\ rm' = [rm EXCEPT ![c] = "ok"]
        /\ dirs' = dirs \ {tempDir[c]}
        /\ files' = RemoveTree(files, tempDir[c])
        /\ UNCHANGED <<err, outcome>>
     \/ /\ rm' = [rm EXCEPT ![c] = "failed"]
        /\ err' = [err EXCEPT ![c] = <<"EBUSY">>]
        /\ outcome' = [outcome EXCEPT ![c] = "thrown"]
        /\ UNCHANGED <<dirs, files>>
  /\ UNCHANGED outerVars
  /\ UNCHANGED <<args, tempDir, idx, result, proc, started, seen, fsOps, calls>>

\* finally: await fs.remove(tempDir), whose failure is logged; then the
\* result or the error reaches the caller
Cleanup(c) ==
  /\ pc[c] = "cleanup"
  /\ pc' = [pc EXCEPT ![c] = "done"]
  /\ \/ /\ rm' = [rm EXCEPT ![c] = "ok"]
        /\ dirs' = dirs \ {tempDir[c]}
        /\ files' = RemoveTree(files, tempDir[c])
     \/ /\ rm' = [rm EXCEPT ![c] = "failed"]
        /\ UNCHANGED <<dirs, files>>
  /\ UNCHANGED outerVars
  /\ UNCHANGED <<args, tempDir, idx, result, err, outcome, proc, started, seen,
                 fsOps, calls>>

\* The caller has taken the result or the error: the call is over
Finish(c) ==
  /\ pc[c] = "done"
  /\ pc' = [pc EXCEPT ![c] = "idle"]
  /\ args' = [args EXCEPT ![c] = NoArgs]
  /\ tempDir' = [tempDir EXCEPT ![c] = ""]
  /\ idx' = [idx EXCEPT ![c] = 0]
  /\ result' = [result EXCEPT ![c] = InitResult]
  /\ err' = [err EXCEPT ![c] = << >>]
  /\ outcome' = [outcome EXCEPT ![c] = "none"]
  /\ started' = [started EXCEPT ![c] = << >>]
  /\ rm' = [rm EXCEPT ![c] = "none"]
  /\ seen' = [seen EXCEPT ![c] = [compile |-> NoExit, run |-> NoExit]]
  /\ fsOps' = [fsOps EXCEPT ![c] = {}]
  /\ UNCHANGED <<proc, dirs, files, calls>>

\* The steps of a call between its first await and its end
Step(c) ==
  \/ EnsureBase(c)
  \/ EnsureDir(c)
  \/ PathExists(c)
  \/ WriteFile(c)
  \/ WriteStdin(c)
  \/ CompileDone(c)
  \/ RunDone(c)
  \/ Cleanup(c)

----------------------------------------------------------------------------
\* Spec: executeCode called directly, one call after the other

Next ==
  \/ \E in \in Inputs : Call(1, in) /\ UNCHANGED outerVars
  \/ Step(1)
  \/ Finish(1) /\ UNCHANGED outerVars

Spec == Init /\ [][Next]_vars

----------------------------------------------------------------------------
\* FairSpec: calls for programs that end and programs that never do.  The
\* event loop runs every callback that is due, and exec's timer ends a child
\* that is still running when options.timeout expires.

FairInputs ==
  {in \in Inputs : /\ in.language \in {"python", "cpp"}
                   /\ in.files \in { << File(MainName, "halt", TRUE) >>,
                                     << File(MainName, "loop", FALSE) >> }
                   /\ in.executionId = ""}

FairNext ==
  \/ \E in \in FairInputs : Call(1, in) /\ UNCHANGED outerVars
  \/ Step(1)
  \/ Finish(1) /\ UNCHANGED outerVars

FairSpec == Init /\ [][FairNext]_vars /\ WF_vars(Step(1))

----------------------------------------------------------------------------
\* SpecConc: calls that overlap in time, each for a compiled program with
\* stdin, with and without an executionId of the caller's

ConcInputs ==
  {in \in Inputs : /\ in.language = "cpp"
                   /\ in.files = << File(MainName, "halt", TRUE) >>
                   /\ in.stdin # << >>}

NextConc ==
  \/ \E c \in Calls, in \in ConcInputs : Call(c, in) /\ UNCHANGED outerVars
  \/ \E c \in Calls : Step(c)
  \/ \E c \in Calls : Finish(c) /\ UNCHANGED outerVars

SpecConc == Init /\ [][NextConc]_vars

----------------------------------------------------------------------------
\* The executor's route POST /execute/code

\* error.status of an error executeCode throws: `new Error(...)` and the
\* errors of fs carry none (0)
StatusOf(msg) == 0

\* error.status || 500
StatusOr500(st) == IF st = 0 THEN 500 ELSE st

\* A request arrives: the handler validates the body and, if it is valid,
\* calls executeCode
Receive(body) ==
  /\ route = "idle"
  /\ req' = body
  /\ IF body.language = "" \/ ~body.hasFiles \/ body.files = << >>
       THEN /\ response' = 400
            /\ UNCHANGED <<route, engineVars>>
       ELSE /\ response' = 0
            /\ route' = "executing"
            /\ Call(1, [language |-> body.language, files |-> body.files,
                        stdin |-> body.stdin, executionId |-> body.executionId])
  /\ UNCHANGED <<testVars, adminVars, serviceVars>>

\* executeCode has settled: the handler answers 200 with the result, or the
\* error's status with its message
Respond ==
  /\ route = "executing"
  /\ pc[1] = "done"
  /\ response' = IF outcome[1] = "returned" THEN 200
                                            ELSE StatusOr500(StatusOf(err[1]))
  /\ route' = "idle"
  /\ Finish(1)
  /\ UNCHANGED <<req, testVars, adminVars, serviceVars>>

NextRoute ==
  \/ \E body \in Bodies : Receive(body)
  \/ Step(1)
  \/ Respond

SpecRoute == Init /\ [][NextRoute]_vars

----------------------------------------------------------------------------
\* executeTestCases

\* Mutant of SortByOrder: the results stay in the order they were pushed in
KeepPushOrder(rs) == rs

\* Array.prototype.sort((a, b) => a.order - b.order): stable, by order
RECURSIVE SortByOrder(_)
SortByOrder(rs) ==
  IF rs = << >> THEN << >>
  ELSE LET least == CHOOSE i \in 1..Len(rs) :
                      /\ \A j \in 1..Len(rs) : rs[i].order <= rs[j].order
                      /\ \A j \in 1..(i - 1) : rs[j].order # rs[i].order
       IN <<rs[least]>> \o
          SortByOrder(SubSeq(rs, 1, least - 1) \o SubSeq(rs, least + 1, Len(rs)))

IsSpace(t) == t \in {" ", "\n", "\t"}

\* Mutant of Trim: the strings are compared as they are
NoTrim(str) == str

\* String.prototype.trim(): the white space at both ends is dropped
RECURSIVE Trim(_)
Trim(str) ==
  IF str = << >> THEN << >>
  ELSE IF IsSpace(Head(str)) THEN Trim(Tail(str))
  ELSE IF IsSpace(str[Len(str)]) THEN Trim(SubSeq(str, 1, Len(str) - 1))
  ELSE str

\* executionResult.exitCode || 0
CodeOr0(n) == IF n = 0 THEN 0 ELSE n

\* Mutant of Evaluated: success is that of the execution alone
EvaluatedBySuccessAlone(tc, r) ==
  LET passed == Trim(r.stdout) = Trim(tc.expectedOutput)
  IN [input |-> tc.input, expectedOutput |-> tc.expectedOutput, order |-> tc.order,
      actualOutput |-> r.stdout,
      stderr |-> r.stderr,
      compilationOutput |-> r.compilationOutput,
      executionTime |-> r.executionTime,
      exitCode |-> CodeOr0(r.exitCode),
      passed |-> passed,
      success |-> r.success]

\* The entry pushed for a test case whose executeCode call returned r
Evaluated(tc, r) ==
  LET passed == Trim(r.stdout) = Trim(tc.expectedOutput)
  IN [input |-> tc.input, expectedOutput |-> tc.expectedOutput, order |-> tc.order,
      actualOutput |-> r.stdout,
      stderr |-> r.stderr,
      compilationOutput |-> r.compilationOutput,
      executionTime |-> r.executionTime,
      exitCode |-> CodeOr0(r.exitCode),
      passed |-> passed,
      success |-> r.success /\ passed]

\* The entry pushed for a test case whose executeCode call threw an error
\* with the message msg
Faulted(tc, msg) ==
  [input |-> tc.input, expectedOutput |-> tc.expectedOutput, order |-> tc.order,
   actualOutput |-> << >>,
   stderr |-> msg,
   compilationOutput |-> << >>,
   executionTime |-> 0,
   exitCode |-> 1,
   passed |-> FALSE,
   success |-> FALSE]

\* executeTestCases is called
StartTests(b) ==
  /\ tpc = "idle"
  /\ Len(b.testCases) <= MaxExecutions - calls
  /\ tpc' = "loop"
  /\ batch' = b
  /\ ti' = 1
  /\ results' = << >>
  /\ UNCHANGED <<summary, engineVars, routeVars, adminVars, serviceVars>>

\* Mutant of LoopHead: the test cases are run in the order of their order
\* fields
LoopHeadByOrder ==
  /\ tpc = "loop"
  /\ IF ti <= Len(batch.testCases)
       THEN /\ tpc' = "awaiting"
            /\ Call(1, [language |-> batch.language, files |-> batch.files,
                        stdin |-> SortByOrder(batch.testCases)[ti].input,
                        executionId |-> ""])
            /\ UNCHANGED results
       ELSE /\ tpc' = "returned"
            /\ results' = SortByOrder(results)
            /\ UNCHANGED engineVars
  /\ UNCHANGED <<batch, ti, summary, routeVars, adminVars, serviceVars>>

\* The head of the for loop: executeCode is called for testCases[i], or,
\* after the last test case, the results are sorted and returned
LoopHead ==
  /\ tpc = "loop"
  /\ IF ti <= Len(batch.testCases)
       THEN /\ tpc' = "awaiting"
            /\ Call(1, [language |-> batch.language, files |-> batch.files,
                        stdin |-> batch.testCases[ti].input, executionId |-> ""])
            /\ UNCHANGED results
       ELSE /\ tpc' = "returned"
            /\ results' = SortByOrder(results)
            /\ UNCHANGED engineVars
  /\ UNCHANGED <<batch, ti, summary, routeVars, adminVars, serviceVars>>

\* Mutant of CaseSettled: an error of executeCode is not caught and ends
\* executeTestCases
CaseSettledUncaught ==
  /\ tpc = "awaiting"
  /\ pc[1] = "done"
  /\ IF outcome[1] = "returned"
       THEN /\ results' = Append(results, Evaluated(batch.testCases[ti], result[1]))
            /\ ti' = ti + 1
            /\ tpc' = "loop"
       ELSE /\ tpc' = "returned"
            /\ UNCHANGED <<results, ti>>
  /\ Finish(1)
  /\ UNCHANGED <<batch, summary, routeVars, adminVars, serviceVars>>

\* executeCode has settled for testCases[i]: its entry is pushed, by the try
\* block when it returned and by the catch block when it threw
CaseSettled ==
  /\ tpc = "awaiting"
  /\ pc[1] = "done"
  /\ results' = Append(results,
                  IF outcome[1] = "returned"
                    THEN Evaluated(batch.testCases[ti], result[1])
                    ELSE Faulted(batch.testCases[ti], err[1]))
  /\ ti' = ti + 1
  /\ tpc' = "loop"
  /\ Finish(1)
  /\ UNCHANGED <<batch, summary, routeVars, adminVars, serviceVars>>

\* filter(...).length, for the sequence of what the filter's test gives
RECURSIVE CountTrue(_)
CountTrue(kept) ==
  IF kept = << >> THEN 0
  ELSE (IF Head(kept) THEN 1 ELSE 0) + CountTrue(Tail(kept))

\* testCaseResults.reduce((sum, result) => sum + (result.executionTime || 0), 0)
RECURSIVE SumTimes(_)
SumTimes(rs) ==
  IF rs = << >> THEN 0 ELSE Head(rs).executionTime + SumTimes(Tail(rs))

\* the summary record, from the number of entries that count as passed
SummaryOf(rs, passedTests) ==
  LET totalTests == Len(rs)
      totalExecutionTime == SumTimes(rs)
  IN [totalTests |-> totalTests,
      passedTests |-> passedTests,
      failedTests |-> totalTests - passedTests,
      successRate |-> IF totalTests > 0 THEN Ratio(passedTests * 100, totalTests)
                                        ELSE Ratio(0, 1),
      totalExecutionTime |-> totalExecutionTime,
      avgExecutionTime |-> IF totalTests > 0 THEN Ratio(totalExecutionTime, totalTests)
                                             ELSE Ratio(0, 1),
      allPassed |-> passedTests = totalTests]

\* Mutant of calculateTestResults: the entries with success=true are counted
calculateTestResultsBySuccess(rs) ==
  SummaryOf(rs, CountTrue([i \in 1..Len(rs) |-> rs[i].success]))

calculateTestResults(rs) ==
  SummaryOf(rs, CountTrue([i \in 1..Len(rs) |-> rs[i].passed]))

\* The caller of executeTestCases summarises the list it got back
Summarise ==
  /\ tpc = "returned"
  /\ tpc' = "summarised"
  /\ summary' = calculateTestResults(results)
  /\ UNCHANGED <<batch, ti, results, engineVars, routeVars, adminVars, serviceVars>>

NextTests ==
  \/ \E b \in Batches : StartTests(b)
  \/ LoopHead
  \/ Step(1)
  \/ CaseSettled
  \/ Summarise

SpecTests == Init /\ [][NextTests]_vars

----------------------------------------------------------------------------
\* The store of code executions and cleanupOldExecutions.  Dates are counted
\* in days.  A statement sent to the store takes effect in the action that
\* resumes after its await, and the handlers of other requests run between
\* two such actions.

\* what a step on the store leaves alone
engineSide == <<engineVars, routeVars, testVars, serviceVars>>

\* retention periods, as passed by the caller or read from the settings
Days == {1, 2}

\* the rows of table f without those whose key is in ids
Without(f, ids) == [k \in DOMAIN f \ ids |-> f[k]]

\* Mutant of Matches: the where clause without isPersistent
MatchesAnyPersistence(row, l) == row.createdAt < l.cutoffDate

\* whereClause: createdAt < cutoffDate and, unless ignorePersistent,
\* isPersistent = false
Matches(row, l) ==
  /\ row.createdAt < l.cutoffDate
  /\ ~l.ignorePersistent => ~row.isPersistent

\* the ids of the CodeExecution rows the where clause selects
Matching(l) == {id \in DOMAIN executions : Matches(executions[id], l)}

\* the ids of the testCase rows with codeExecutionId in ids
RowsOf(ids) == {t \in DOMAIN testRows : testRows[t].codeExecutionId \in ids}

\* CodeExecution.create({ ..., isPersistent: Boolean(isPersistent) })
CreateExecution(persistent) ==
  /\ created < MaxRecords
  /\ created' = created + 1
  /\ executions' = ((created + 1) :> [createdAt |-> now, isPersistent |-> persistent,
                                       status |-> "pending"])
                      @@ executions
  /\ UNCHANGED <<now, testRows, cpc, cl, stats, engineSide>>

\* testCase.create({ codeExecutionId: codeExecution.id, ... })
SaveTestCase(id) ==
  /\ id \in DOMAIN executions
  /\ id \notin DOMAIN testRows
  /\ testRows' = (id :> [codeExecutionId |-> id]) @@ testRows
  /\ UNCHANGED <<now, executions, cpc, cl, stats, created, engineSide>>

\* codeExecution.update({ isPersistent: Boolean(isPersistent) })
UpdatePersistence(id, persistent) ==
  /\ id \in DOMAIN executions
  /\ executions[id].isPersistent # persistent
  /\ executions' = [executions EXCEPT ![id].isPersistent = persistent]
  /\ UNCHANGED <<now, testRows, cpc, cl, stats, created, engineSide>>

\* a day passes; a cleanup is over within the day it started on
Tick ==
  /\ now < MaxNow
  /\ cpc = "idle"
  /\ now' = now + 1
  /\ UNCHANGED <<executions, testRows, cpc, cl, stats, created, engineSide>>

\* Mutant of ShouldDelete: dryRun is not looked at
ShouldDeleteOnDryRun(l) == l.executionIds # {}

\* !dryRun && executionIds.length > 0
ShouldDelete(l) == ~l.dryRun /\ l.executionIds # {}

\* return { cutoffDate, identifiedExecutions, ... }
ReturnStats(l) ==
  /\ cpc' = "done"
  /\ cl' = l
  /\ stats' = [cutoffDate |-> l.cutoffDate,
               identifiedExecutions |-> l.executionCount,
               identifiedTestCases |-> l.testCaseCount,
               deletedExecutions |-> IF l.dryRun THEN 0 ELSE l.deletedExecutions,
               deletedTestCases |-> IF l.dryRun THEN 0 ELSE l.deletedTestCases,
               dryRun |-> l.dryRun,
               executionIds |-> IF l.dryRun THEN l.executionIds ELSE {}]

\* a statement is rejected by the store: the catch block logs and rethrows
Rethrow ==
  /\ cpc' = "done"
  /\ cl' = [cl EXCEPT !.thrown = TRUE]
  /\ UNCHANGED stats

\* cleanupOldExecutions is called: up to its first await
StartCleanup(hasDays, days, dryRun, ignorePersistent) ==
  /\ cpc = "idle"
  /\ IF hasDays
       THEN /\ cpc' = "count"
            /\ cl' = [NoCleanup EXCEPT !.hasDays = TRUE, !.days = days,
                                       !.dryRun = dryRun,
                                       !.ignorePersistent = ignorePersistent,
                                       !.cutoffDate = now - days]
       ELSE /\ cpc' = "setting"
            /\ cl' = [NoCleanup EXCEPT !.dryRun = dryRun,
                                       !.ignorePersistent = ignorePersistent]
  /\ UNCHANGED <<now, executions, testRows, stats, created, engineSide>>

\* await settingsService.getNumericSetting("CODE_EXECUTION_RETENTION_DAYS", 7)
GotSetting(days) ==
  /\ cpc = "setting"
  /\ cpc' = "count"
  /\ cl' = [cl EXCEPT !.hasDays = TRUE, !.days = days, !.cutoffDate = now - days]
  /\ UNCHANGED <<now, executions, testRows, stats, created, engineSide>>

\* await CodeExecution.count({ where: whereClause })
Counted ==
  /\ cpc = "count"
  /\ \/ /\ cpc' = "find"
        /\ cl' = [cl EXCEPT !.executionCount = Cardinality(Matching(cl))]
        /\ UNCHANGED stats
     \/ Rethrow
  /\ UNCHANGED <<now, executions, testRows, created, engineSide>>

\* await CodeExecution.findAll({ where: whereClause, attributes: ['id'] })
Found ==
  /\ cpc = "find"
  /\ \/ LET l == [cl EXCEPT !.executionIds = Matching(cl)]
        IN IF l.executionIds # {}
             THEN /\ cpc' = "countTc"
                  /\ cl' = l
                  /\ UNCHANGED stats
             ELSE ReturnStats(l)
     \/ Rethrow
  /\ UNCHANGED <<now, executions, testRows, created, engineSide>>

\* await testCase.count({ where: { codeExecutionId: { [Op.in]: executionIds } } })
CountedTestCases ==
  /\ cpc = "countTc"
  /\ \/ LET l == [cl EXCEPT !.testCaseCount = Cardinality(RowsOf(cl.executionIds))]
        IN IF ShouldDelete(l)
             THEN /\ cpc' = IF l.testCaseCount > 0 THEN "destroyTc" ELSE "destroyEx"
                  /\ cl' = l
                  /\ UNCHANGED stats
             ELSE ReturnStats(l)
     \/ Rethrow
  /\ UNCHANGED <<now, executions, testRows, created, engineSide>>

\* await testCase.destroy({ where: { codeExecutionId: { [Op.in]: executionIds } } });
\* destroyedFor records the executions whose rows the statement removed
DestroyedTestCases ==
  /\ cpc = "destroyTc"
  /\ \/ /\ cpc' = "destroyEx"
        /\ testRows' = Without(testRows, RowsOf(cl.executionIds))
        /\ cl' = [cl EXCEPT !.deletedTestCases = Cardinality(RowsOf(cl.executionIds)),
                            !.destroyedFor =
                               {testRows[t].codeExecutionId : t \in RowsOf(cl.executionIds)}]
        /\ UNCHANGED stats
     \/ /\ Rethrow
        /\ UNCHANGED testRows
  /\ UNCHANGED <<now, executions, created, engineSide>>

\* await CodeExecution.destroy({ where: whereClause }): the store evaluates
\* the where clause when it deletes; test case rows that still point to a
\* deleted row go with it, or make the store reject the statement
DestroyedExecutions ==
  /\ cpc = "destroyEx"
  /\ \/ /\ executions' = Without(executions, Matching(cl))
        /\ testRows' = Without(testRows, RowsOf(Matching(cl)))
        /\ ReturnStats([cl EXCEPT !.deletedExecutions = Cardinality(Matching(cl))])
     \/ /\ Rethrow
        /\ UNCHANGED <<executions, testRows>>
  /\ UNCHANGED <<now, created, engineSide>>

\* the caller has taken the statistics or the error
FinishCleanup ==
  /\ cpc = "done"
  /\ cpc' = "idle"
  /\ cl' = NoCleanup
  /\ stats' = NoStats
  /\ UNCHANGED <<now, executions, testRows, created, engineSide>>

NextCleanup ==
  \/ \E persistent \in BOOLEAN : CreateExecution(persistent)
  \/ \E id \in 1..MaxRecords : SaveTestCase(id)
  \/ \E id \in 1..MaxRecords, persistent \in BOOLEAN : UpdatePersistence(id, persistent)
  \/ Tick
  \/ \E hasDays, dryRun, ignorePersistent \in BOOLEAN, days \in Days :
       StartCleanup(hasDays, IF hasDays THEN days ELSE 0, dryRun, ignorePersistent)
  \/ \E days \in Days : GotSetting(days)
  \/ Counted
  \/ Found
  \/ CountedTestCases
  \/ DestroyedTestCases
  \/ DestroyedExecutions
  \/ FinishCleanup

SpecCleanup == Init /\ [][NextCleanup]_vars

----------------------------------------------------------------------------
\* SpecStaging: executeCode called directly, one call after the other, with
\* files whose names meet in the workspace

NextStaging ==
  \/ \E in \in StagingInputs : Call(1, in) /\ UNCHANGED outerVars
  \/ Step(1)
  \/ Finish(1) /\ UNCHANGED outerVars

SpecStaging == Init /\ [][NextStaging]_vars

----------------------------------------------------------------------------
\* SpecController: the runCode and runTestCases handlers, one request after
\* the other, over executeCode, executeTestCases and the store

\* !v
Falsy(v) == v.type = "undefined" \/ (v.type = "string" /\ v.str = << >>)

\* the Language rows with isActive: id -> name
ActiveLanguages == (1 :> "python") @@ (2 :> "cpp")

\* Buffer.from(str, "base64").toString("utf-8"), token by token: what is
\* not the encoding of a text decodes to replacement characters
Base64Decode(str) ==
  [i \in 1..Len(str) |->
     CASE str[i] = "aW4=" -> "in"
       [] str[i] = "aGFsdA==" -> "halt"
       [] str[i] = "b3V0" -> "out"
       [] OTHER -> "\\uFFFD"]

\* Buffer.from(v, "base64") throws a TypeError for a value that is neither
\* a string nor a buffer nor an array
DecodeThrows(v, isBase64Encoded) == isBase64Encoded /\ ~Falsy(v) /\ v.type # "string"

\* decodeInput(input, isBase64Encoded), where it does not throw
decodeInput(v, isBase64Encoded) ==
  IF isBase64Encoded /\ ~Falsy(v) THEN Str(Base64Decode(v.str)) ELSE v

\* v || ""
OrEmpty(v) == IF Falsy(v) THEN << >> ELSE v.str

\* prepareFilesForExecution throws: code is decoded like an input
PrepareThrows(body) == body.isBase64Encoded /\ body.code.type # "string"

\* prepareFilesForExecution(language, code, undefined, isBase64Encoded): the
\* one main file, whose content is what the program does
prepareFilesForExecution(body) ==
  LET text == IF body.isBase64Encoded THEN Base64Decode(body.code.str) ELSE body.code.str
  IN << File(MainName, IF text = <<"halt">> THEN "halt" ELSE "broken", TRUE) >>

\* a test case of a request body
BodyCase(input, expected) == [input |-> input, expectedOutput |-> expected, order |-> Undef]

\* the request bodies: a value that is not a string comes with
\* isBase64Encoded, a text is encoded when isBase64Encoded says so
Requests ==
  LET texts(b64, plain, coded) == {Undef, Str(IF b64 THEN <<coded>> ELSE <<plain>>)}
                                    \cup (IF b64 THEN {Num} ELSE {})
  IN UNION { [handler : {"runCode"}, languageId : {0, 1, 2, 9},
              code : texts(b64, "halt", "aGFsdA=="),
              stdin : texts(b64, "in", "aW4="),
              testCases : {<< >>}, isBase64Encoded : {b64}]
             \cup
             [handler : {"runTestCases"}, languageId : {1, 9},
              code : texts(b64, "halt", "aGFsdA=="),
              stdin : {Undef},
              testCases : {<< >>}
                \cup {<<BodyCase(i, e)>> :
                        i \in texts(b64, "in", "aW4="),
                        e \in {Undef, Str(IF b64 THEN <<"b3V0">> ELSE <<"out">>)}},
              isBase64Encoded : {b64}]
           : b64 \in BOOLEAN }

\* res.status(st).json(...) as the handler's last act
Answer(st) ==
  /\ hres' = st
  /\ hpc' = "responded"

\* codeExecution.update({ status, ... })
SetStatus(st) == executions' = [executions EXCEPT ![hid].status = st]

\* A request arrives: the body is validated up to `await validateLanguage`
HandlerReceive(body) ==
  /\ hpc = "idle"
  /\ created < MaxRecords
  /\ calls < MaxExecutions
  /\ tpc = "idle"
  /\ hreq' = body
  /\ IF \/ Falsy(body.code)
        \/ body.handler = "runTestCases" /\ body.testCases = << >>
        \/ body.handler = "runTestCases"
             /\ \E i \in 1..Len(body.testCases) :
                  body.testCases[i].expectedOutput.type = "undefined"
       THEN Answer(400)
       ELSE hpc' = "language" /\ hres' = 0
  /\ UNCHANGED <<hid, engineVars, routeVars, testVars, adminVars, settingsVars>>

\* validateLanguage has settled: without an active language the request is
\* answered, with one `await CodeExecution.create` begins
HandlerLanguage ==
  /\ hpc = "language"
  /\ \/ IF hreq.languageId = 0 THEN Answer(400)
        ELSE IF hreq.languageId \notin DOMAIN ActiveLanguages THEN Answer(404)
        ELSE hpc' = "create" /\ UNCHANGED hres
     \/ \* Language.findOne is rejected: the outer catch answers
        hreq.languageId # 0 /\ Answer(500)
  /\ UNCHANGED <<hreq, hid, engineVars, routeVars, testVars, adminVars, settingsVars>>

\* CodeExecution.create has settled; with the row, the handler prepares
\* the files and decodes the inputs, and calls executeCode or
\* executeTestCases
HandlerCreated ==
  /\ hpc = "create"
  /\ \/ \* create is rejected: the outer catch answers
        /\ Answer(500)
        /\ UNCHANGED <<hid, engineVars, testVars, adminVars>>
     \/ /\ hid' = created + 1
        /\ created' = created + 1
        /\ executions' = ((created + 1) :> [createdAt |-> now, isPersistent |-> FALSE,
                                             status |-> "pending"]) @@ executions
        /\ UNCHANGED <<now, testRows, cpc, cl, stats>>
        /\ IF PrepareThrows(hreq)
             THEN /\ hpc' = "fail400"
                  /\ UNCHANGED <<hres, engineVars, testVars>>
           ELSE IF hreq.handler = "runCode"
             THEN IF DecodeThrows(hreq.stdin, hreq.isBase64Encoded)
                    THEN /\ hpc' = "fail400"
                         /\ UNCHANGED <<hres, engineVars, testVars>>
                    ELSE /\ hpc' = "executing"
                         /\ Call(1, [language |-> ActiveLanguages[hreq.languageId],
                                     files |-> prepareFilesForExecution(hreq),
                                     stdin |-> OrEmpty(decodeInput(hreq.stdin,
                                                                   hreq.isBase64Encoded)),
                                     executionId |-> ""])
                         /\ UNCHANGED <<hres, testVars>>
           ELSE IF \E i \in 1..Len(hreq.testCases) :
                     \/ DecodeThrows(hreq.testCases[i].input, hreq.isBase64Encoded)
                     \/ DecodeThrows(hreq.testCases[i].expectedOutput, hreq.isBase64Encoded)
             THEN \* the error of the map callback reaches the outer catch
                  /\ Answer(500)
                  /\ UNCHANGED <<engineVars, testVars>>
             ELSE /\ hpc' = "testing"
                  /\ tpc' = "loop"
                  /\ batch' =
                       [language |-> ActiveLanguages[hreq.languageId],
                        files |-> prepareFilesForExecution(hreq),
                        testCases |->
                          [i \in 1..Len(hreq.testCases) |->
                             TestCase(OrEmpty(decodeInput(hreq.testCases[i].input,
                                                          hreq.isBase64Encoded)),
                                      decodeInput(hreq.testCases[i].expectedOutput,
                                                  hreq.isBase64Encoded).str,
                                      i - 1)]]
                  /\ ti' = 1
                  /\ results' = << >>
                  /\ UNCHANGED <<hres, summary, engineVars>>
  /\ UNCHANGED <<hreq, routeVars, settingsVars>>

\* runCode: executeCode has settled; its result is written to the row, its
\* error sends the handler to the inner catch
HandlerExecuted ==
  /\ hpc = "executing"
  /\ pc[1] = "done"
  /\ hpc' = IF outcome[1] = "returned" THEN "record" ELSE "fail500"
  /\ UNCHANGED <<hreq, hid, hres, engineVars, routeVars, testVars, adminVars, settingsVars>>

\* runCode: `await codeExecution.update({ ..., status: result.success ?
\* "completed" : "failed" })` has settled
HandlerRecorded ==
  /\ hpc = "record"
  /\ \/ /\ SetStatus(IF result[1].success THEN "completed" ELSE "failed")
        /\ Answer(200)
     \/ /\ hpc' = "fail500"
        /\ UNCHANGED <<executions, hres>>
  /\ UNCHANGED <<hreq, hid, now, testRows, cpc, cl, stats, created,
                 engineVars, routeVars, testVars, settingsVars>>

\* runTestCases: executeTestCases has returned; the summary is made and the
\* saving of the entries begins
HandlerTested ==
  /\ hpc = "testing"
  /\ tpc = "returned"
  /\ summary' = calculateTestResults(results)
  /\ tpc' = "summarised"
  /\ hpc' = "save"
  /\ UNCHANGED <<hreq, hid, hres, batch, ti, results, engineVars, routeVars, adminVars, settingsVars>>

\* runTestCases: `await testCase.create` of the loop over the entries has
\* settled (the store keeps one row for an execution, the requests have one
\* test case); after the last, the update to "completed" begins
HandlerSaved ==
  /\ hpc = "save"
  /\ \/ /\ testRows' = (hid :> [codeExecutionId |-> hid]) @@ testRows
        /\ hpc' = "complete"
     \/ /\ hpc' = "fail500"
        /\ UNCHANGED testRows
  /\ UNCHANGED <<hreq, hid, hres, now, executions, cpc, cl, stats, created,
                 engineVars, routeVars, testVars, settingsVars>>

\* runTestCases: `await codeExecution.update({ status: "completed", ... })`
\* has settled
HandlerCompleted ==
  /\ hpc = "complete"
  /\ \/ /\ SetStatus("completed")
        /\ Answer(200)
     \/ /\ hpc' = "fail500"
        /\ UNCHANGED <<executions, hres>>
  /\ UNCHANGED <<hreq, hid, now, testRows, cpc, cl, stats, created,
                 engineVars, routeVars, testVars, settingsVars>>

\* `await codeExecution.update({ status: "failed", ... })` of a catch block
\* has settled: the block answers with st, or the rejection of the update
\* reaches the outer catch
HandlerFailed(at, st) ==
  /\ hpc = at
  /\ \/ /\ SetStatus("failed")
        /\ Answer(st)
     \/ /\ Answer(500)
        /\ UNCHANGED executions
  /\ UNCHANGED <<hreq, hid, now, testRows, cpc, cl, stats, created,
                 engineVars, routeVars, testVars, settingsVars>>

\* the response is out and the handler has returned
HandlerDone ==
  /\ hpc = "responded"
  /\ hpc' = "idle"
  /\ hreq' = NoRequest
  /\ hid' = 0
  /\ hres' = 0
  /\ IF pc[1] = "done" THEN Finish(1) ELSE UNCHANGED engineVars
  /\ tpc' = "idle"
  /\ batch' = NoBatch
  /\ ti' = 0
  /\ results' = << >>
  /\ summary' = NoSummary
  /\ UNCHANGED <<routeVars, adminVars, settingsVars>>

NextController ==
  \/ (hpc = "idle" /\ \E body \in Requests : HandlerReceive(body))
  \/ HandlerLanguage
  \/ HandlerCreated
  \/ (hpc = "executing" /\ Step(1))
  \/ HandlerExecuted
  \/ HandlerRecorded
  \/ (hpc = "testing" /\ (LoopHead \/ Step(1) \/ CaseSettled))
  \/ HandlerTested
  \/ HandlerSaved
  \/ HandlerCompleted
  \/ HandlerFailed("fail400", 400)
  \/ HandlerFailed("fail500", 500)
  \/ HandlerDone

SpecController == Init /\ [][NextController]_vars

----------------------------------------------------------------------------
\* SpecSettings: getSetting and updateSetting for one key, over the cache
\* and the Settings table.  A query takes effect in the store in one step
\* and resumes its caller in a later one.

SettingValues == {"7", "30"}

\* everything the settings service leaves alone
settingsRest == <<engineVars, routeVars, testVars, adminVars, ctlVars>>

\* 60 * 1000 ms, and the clock's unit in ms
CACHE_TTL == 60000
ClockUnit == 40000

\* Date.now(), never 0
DateNow == clock + 1

\* !cacheLastUpdated || now - cacheLastUpdated > CACHE_TTL
CacheExpired ==
  cacheLastUpdated = 0 \/ (DateNow - cacheLastUpdated) * ClockUnit > CACHE_TTL

\* getSetting after the refresh: the cached value is returned, or
\* Settings.findOne is awaited
FromCache(g, cache) ==
  IF cache # ""
    THEN sget' = [sget EXCEPT ![g].pc = "returned", ![g].ret = cache]
    ELSE sget' = [sget EXCEPT ![g].pc = "findOne"]

\* getSetting(key) is called: up to its first await
GetSetting(g) ==
  /\ sget[g].pc = "idle"
  /\ LET call == [NoGet EXCEPT !.after =
                     IF supd.pc = "idle" /\ supd.completed > 0 /\ supd.completed = supd.started
                       THEN supd.completed ELSE -1]
     IN IF CacheExpired
          THEN sget' = [sget EXCEPT ![g] = [call EXCEPT !.pc = "findAll"]]
          ELSE IF settingsCache # ""
            THEN sget' = [sget EXCEPT ![g] = [call EXCEPT !.pc = "returned",
                                                          !.ret = settingsCache]]
            ELSE sget' = [sget EXCEPT ![g] = [call EXCEPT !.pc = "findOne"]]
  /\ UNCHANGED <<settingRow, settingsCache, cacheLastUpdated, clock, supd, settingsRest>>

\* the store runs the query of Settings.findAll or Settings.findOne, or
\* rejects it
QueryRuns(g) ==
  /\ sget[g].pc \in {"findAll", "findOne"}
  /\ \E found \in {settingRow, "error"} :
       sget' = [sget EXCEPT ![g].pc = IF sget[g].pc = "findAll" THEN "refreshing"
                                                                ELSE "finding",
                            ![g].read = found]
  /\ UNCHANGED <<settingRow, settingsCache, cacheLastUpdated, clock, supd, settingsRest>>

\* refreshCache resumes after `await Settings.findAll()`: the rows become
\* the cache, or the error is logged; then getSetting goes on
Refreshed(g) ==
  /\ sget[g].pc = "refreshing"
  /\ IF sget[g].read = "error"
       THEN /\ FromCache(g, settingsCache)
            /\ UNCHANGED <<settingsCache, cacheLastUpdated, settingsRest>>
       ELSE /\ settingsCache' = sget[g].read
            /\ cacheLastUpdated' = DateNow
            /\ FromCache(g, sget[g].read)
  /\ UNCHANGED <<settingRow, clock, supd, settingsRest>>

\* getSetting resumes after `await Settings.findOne(...)`
FoundOne(g) ==
  /\ sget[g].pc = "finding"
  /\ IF sget[g].read \notin {"", "error"}
       THEN /\ settingsCache' = sget[g].read
            /\ sget' = [sget EXCEPT ![g].pc = "returned", ![g].ret = sget[g].read]
       ELSE /\ sget' = [sget EXCEPT ![g].pc = "returned", ![g].ret = ""]
            /\ UNCHANGED settingsCache
  /\ UNCHANGED <<settingRow, cacheLastUpdated, clock, supd, settingsRest>>

\* the caller has the value
GetDone(g) ==
  /\ sget[g].pc = "returned"
  /\ sget' = [sget EXCEPT ![g] = NoGet]
  /\ UNCHANGED <<settingRow, settingsCache, cacheLastUpdated, clock, supd, settingsRest>>

\* invalidateCache()
invalidateCache ==
  /\ cacheLastUpdated' = 0
  /\ settingsCache' = ""

\* updateSetting(key, value) is called: up to `await Settings.findOrCreate`
UpdateSetting(value) ==
  /\ supd.pc = "idle"
  /\ supd.started < MaxUpdates
  /\ value # supd.last
  /\ supd' = [supd EXCEPT !.pc = "findOrCreate", !.value = value,
                          !.started = @ + 1]
  /\ UNCHANGED <<settingRow, settingsCache, cacheLastUpdated, clock, sget, settingsRest>>

\* the store runs findOrCreate (a row is made if there is none) or the
\* update of the row, or rejects the statement
StatementRuns ==
  /\ supd.pc \in {"findOrCreate", "update"}
  /\ \/ /\ supd' = [supd EXCEPT !.pc = IF supd.pc = "update" THEN "updated"
                                                              ELSE "foundOrCreated",
                                 !.created = supd.pc = "findOrCreate" /\ settingRow = ""]
        /\ settingRow' = IF supd.pc = "update" \/ settingRow = "" THEN supd.value
                                                                  ELSE settingRow
     \/ /\ supd' = [supd EXCEPT !.pc = "rejected"]
        /\ UNCHANGED settingRow
  /\ UNCHANGED <<settingsCache, cacheLastUpdated, clock, sget, settingsRest>>

\* updateSetting resumes after an await: after findOrCreate of a row that
\* was there, setting.update is awaited; else the cache is invalidated and
\* the call returns; a rejected statement is rethrown
UpdateResumes ==
  /\ supd.pc \in {"foundOrCreated", "updated", "rejected"}
  /\ IF supd.pc = "rejected"
       THEN /\ supd' = [supd EXCEPT !.pc = "thrown"]
            /\ UNCHANGED <<settingsCache, cacheLastUpdated, settingsRest>>
     ELSE IF supd.pc = "foundOrCreated" /\ ~supd.created
       THEN /\ supd' = [supd EXCEPT !.pc = "update"]
            /\ UNCHANGED <<settingsCache, cacheLastUpdated, settingsRest>>
       ELSE /\ invalidateCache
            /\ supd' = [supd EXCEPT !.pc = "done"]
  /\ UNCHANGED <<settingRow, clock, sget, settingsRest>>

\* the caller has the setting or the error
UpdateDone ==
  /\ supd.pc \in {"done", "thrown"}
  /\ supd' = [supd EXCEPT !.pc = "idle",
                          !.completed = IF supd.pc = "done" THEN @ + 1 ELSE @,
                          !.started = IF supd.pc = "done" THEN @ ELSE @ - 1,
                          !.last = IF supd.pc = "done" THEN supd.value ELSE @,
                          !.value = "", !.created = FALSE]
  /\ UNCHANGED <<settingRow, settingsCache, cacheLastUpdated, clock, sget, settingsRest>>

\* 40 s pass
ClockTick ==
  /\ clock < MaxClock
  /\ clock' = clock + 1
  /\ UNCHANGED <<settingRow, settingsCache, cacheLastUpdated, sget, supd, settingsRest>>

NextSettings ==
  \/ \E g \in Getters : GetSetting(g)
  \/ \E g \in Getters : QueryRuns(g)
  \/ \E g \in Getters : Refreshed(g)
  \/ \E g \in Getters : FoundOne(g)
  \/ \E g \in Getters : GetDone(g)
  \/ \E value \in SettingValues : UpdateSetting(value)
  \/ StatementRuns
  \/ UpdateResumes
  \/ UpdateDone
  \/ ClockTick

SpecSettings == Init /\ [][NextSettings]_vars

----------------------------------------------------------------------------
\* SpecJudge: the try block of executeTestCases after executeCode has
\* returned, for the outputs a program can print and the expected outputs a
\* caller can submit

Chars == {"a", "A", " ", "\n"}

\* the strings of at most n characters
Strings(n) == UNION { [1..k -> Chars] : k \in 0..n }

\* executeTestCases with the one test case tc, whose executeCode call
\* returns r
Judge(tc, r) ==
  /\ tpc = "idle"
  /\ batch' = [language |-> "python", files |-> << File(MainName, "halt", TRUE) >>,
               testCases |-> <<tc>>]
  /\ results' = SortByOrder(<<Evaluated(tc, r)>>)
  /\ ti' = 2
  /\ tpc' = "returned"
  /\ UNCHANGED <<summary, engineVars, routeVars, adminVars, serviceVars>>

NextJudge ==
  /\ tpc = "idle"
  /\ \E out, expected \in Strings(MaxLen), ok \in BOOLEAN :
       Judge(TestCase(<< >>, expected, 0),
             [InitResult EXCEPT !.stdout = out, !.success = ok,
                                !.exitCode = IF ok THEN 0 ELSE 1])

SpecJudge == Init /\ [][NextJudge]_vars

----------------------------------------------------------------------------
\* Claims

InFlight(c) == pc[c] \notin {"idle", "done"}

PastLanguageCheck(c) == args[c].language \in DOMAIN languageConfigs

CompileEnded(c) == seen[c].compile.kind # "none"

RunEnded(c) == seen[c].run.kind # "none"

Marked(str) == \E i \in 1..Len(str) : str[i] = TimeoutMarker

\* C1: when a call that got past the language check ends, by a result or by
\* an error, fs.remove(tempDir) has been attempted, and where it succeeded
\* the directory does not exist.
C1_WorkspaceRemoved ==
  \A c \in Calls :
    pc[c] = "done" /\ PastLanguageCheck(c) =>
      /\ rm[c] # "none"
      /\ rm[c] = "ok" => tempDir[c] \notin dirs /\ \A p \in DOMAIN files : ~Inside(tempDir[c], p)

C1_Witness ==
  \E c \in Calls :
    /\ pc[c] = "done" /\ outcome[c] = "thrown" /\ rm[c] = "ok"
    /\ \E p \in fsOps[c] : Inside(tempDir[c], p)

\* C2 (as claimed): two calls in flight at the same time never have the same
\* workspace directory.
C2_DistinctWorkspaces ==
  \A c1, c2 \in Calls :
    c1 # c2 /\ InFlight(c1) /\ InFlight(c2) => tempDir[c1] # tempDir[c2]

\* C3 (as claimed): whenever the compiler wrote to stderr, the result has
\* success=false and exitCode=1 and the run step was not started.
C3_Original ==
  \A c \in Calls :
    pc[c] = "done" /\ CompileEnded(c) /\ seen[c].compile.stderr # << >> =>
      /\ outcome[c] = "returned"
      /\ ~result[c].success
      /\ result[c].exitCode = 1
      /\ started[c] = <<"compile">>

\* C3 (amended): whenever the compiler wrote to stderr, the result has
\* success=false and the run step was not started; exitCode is 1 when the
\* compiler exited with code 0 or without an exit code, and the compiler's
\* own exit code otherwise.
C3_CompilerStderrFails ==
  \A c \in Calls :
    pc[c] = "done" /\ CompileEnded(c) /\ seen[c].compile.stderr # << >> =>
      /\ outcome[c] = "returned"
      /\ ~result[c].success
      /\ result[c].exitCode =
           IF seen[c].compile.kind = "resolved" \/ ~seen[c].compile.hasCode
             THEN 1 ELSE seen[c].compile.code
      /\ started[c] = <<"compile">>

C3_Witness ==
  \E c \in Calls :
    /\ pc[c] = "done" /\ CompileEnded(c)
    /\ seen[c].compile.kind = "resolved" /\ seen[c].compile.stderr # << >>
    /\ result[c].exitCode = 1

\* C4 (as claimed): when the compiler rejects the program, the result has
\* success=false, a non-empty compilationOutput, exitCode=1 and empty stdout.
C4_CompileFailureResult ==
  \A c \in Calls :
    /\ pc[c] = "done" /\ CompileEnded(c)
    /\ seen[c].compile.kind = "exit" /\ seen[c].compile.code = 1
    /\ seen[c].compile.stderr # << >>
    => /\ outcome[c] = "returned"
       /\ ~result[c].success
       /\ result[c].compilationOutput # << >>
       /\ result[c].exitCode = 1
       /\ result[c].stdout = << >>

C8_SuccessMeansCleanRun ==
  \A c \in Calls :
    outcome[c] = "returned" /\ result[c].success =>
      /\ HasCompile(args[c].language) =>
           /\ seen[c].compile.kind = "resolved"
           /\ seen[c].compile.stderr = << >>
      /\ ~HasCompile(args[c].language) => ~CompileEnded(c)
      /\ seen[c].run.kind = "resolved"
      /\ seen[c].run.code = 0 /\ seen[c].run.signal = "" /\ ~seen[c].run.killed
      /\ result[c].exitCode = 0

C8_Witness ==
  \E c \in Calls :
    /\ pc[c] = "done" /\ outcome[c] = "returned" /\ result[c].success
    /\ HasCompile(args[c].language)

\* C9 (as claimed): whatever a call creates or writes lies in its own
\* workspace directory.
C9_WritesStayInWorkspace ==
  \A c \in Calls :
    \A p \in fsOps[c] : p = <<tempDir[c]>> \/ Inside(tempDir[c], p)

\* C7 (as claimed): a request whose language is unsupported or whose files
\* are missing is answered with a 4xx status, and a 5xx status answers only a
\* request whose executeCode call failed on the workspace or on a process.
C7_StatusClasses ==
  response # 0 =>
    /\ (\/ req.language \notin DOMAIN languageConfigs
        \/ ~req.hasFiles \/ req.files = << >>) => response \in 400..499
    /\ response \in 500..599 =>
         /\ req.language \in DOMAIN languageConfigs
         /\ req.hasFiles /\ req.files # << >>

\* C10: when executeCode throws for a test case, an entry with passed=false,
\* success=false and the error's message as stderr is pushed for it and the
\* loop goes on to the next test case; when executeTestCases returns,
\* executeCode has been called for every test case.
C10_FaultDoesNotAbortBatch ==
  /\ [][ tpc = "awaiting" /\ pc[1] = "done" /\ outcome[1] = "thrown" =>
           /\ Len(results') = Len(results) + 1
           /\ SubSeq(results', 1, Len(results)) = results
           /\ ~results'[Len(results')].passed
           /\ ~results'[Len(results')].success
           /\ results'[Len(results')].stderr = err[1]
           /\ results'[Len(results')].input = batch.testCases[ti].input
           /\ ti' = ti + 1 /\ tpc' = "loop" ]_vars
  /\ [](tpc \in {"returned", "summarised"} =>
          /\ Len(results) = Len(batch.testCases)
          /\ calls = Len(batch.testCases))

C10_Witness ==
  /\ tpc = "summarised" /\ Len(results) = 2
  /\ \E i, j \in 1..2 :
       /\ i # j
       /\ results[i].stderr = <<"Failed to write stdin file">>
       /\ results[i].input = batch.testCases[1].input
       /\ results[j].passed /\ results[j].success

\* a result entry carries the input, expectedOutput and order of a test case
Carries(entry, tc) ==
  /\ entry.input = tc.input
  /\ entry.expectedOutput = tc.expectedOutput
  /\ entry.order = tc.order

\* C11: the list executeTestCases returns is in non-decreasing order of
\* `order` and has exactly one entry for each submitted test case, carrying
\* that test case's input, expectedOutput and order.
C11_SortedOnePerCase ==
  tpc \in {"returned", "summarised"} =>
    LET n == Len(batch.testCases) IN
      /\ Len(results) = n
      /\ \A i, j \in 1..n : i <= j => results[i].order <= results[j].order
      /\ \E p \in [1..n -> 1..n] :
           /\ \A i, j \in 1..n : p[i] = p[j] => i = j
           /\ \A i \in 1..n : Carries(results[p[i]], batch.testCases[i])

C11_Witness ==
  /\ tpc = "returned" /\ Len(results) = 2
  /\ batch.testCases[1].order > batch.testCases[2].order
  /\ Carries(results[1], batch.testCases[2])
  /\ Carries(results[2], batch.testCases[1])

\* the part of str between its first and its last character that is not
\* white space
Stripped(str) ==
  LET solid == {i \in 1..Len(str) : ~IsSpace(str[i])}
  IN IF solid = {} THEN << >>
     ELSE SubSeq(str, CHOOSE i \in solid : \A j \in solid : i <= j,
                      CHOOSE i \in solid : \A j \in solid : i >= j)

\* C12: an entry for a test case whose executeCode call returned has
\* passed=true exactly when the output and the expected output are the same
\* string once the white space at both ends of each is removed.
C12_PassedIffTrimmedEqual ==
  tpc = "returned" =>
    \A i \in 1..Len(results) :
      results[i].passed <=>
        Stripped(results[i].actualOutput) = Stripped(results[i].expectedOutput)

C12_Witness ==
  /\ tpc = "returned" /\ Len(results) = 1
  /\ results[1].passed
  /\ results[1].actualOutput # results[1].expectedOutput
  /\ Len(Stripped(results[1].actualOutput)) = 1

\* C13: the entry pushed for a test case has success=true exactly when its
\* executeCode call returned a result with success=true and the entry has
\* passed=true; no entry has success=true and passed=false.
C13_SuccessIffRanAndPassed ==
  /\ [][ tpc = "awaiting" /\ pc[1] = "done" =>
           LET entry == results'[Len(results')]
           IN /\ Len(results') = Len(results) + 1
              /\ entry.success <=>
                   (outcome[1] = "returned" /\ result[1].success /\ entry.passed) ]_vars
  /\ [](\A i \in 1..Len(results) : results[i].success => results[i].passed)

C13_Witness ==
  \E i \in 1..Len(results) :
    /\ ~results[i].passed /\ ~results[i].success
    /\ results[i].exitCode = 0 /\ results[i].actualOutput = <<"out", "\n">>

\* C15: the finally block changes neither the result nor the error of the
\* call, whether fs.remove succeeds or fails: the call ends with the result
\* it returned or the error it threw inside the try block.
C15_RemovalFailureIsSwallowed ==
  [][ \A c \in Calls :
        pc[c] = "cleanup" /\ pc'[c] # "cleanup" =>
          /\ pc'[c] = "done"
          /\ outcome[c] \in {"returned", "thrown"}
          /\ outcome'[c] = outcome[c]
          /\ result'[c] = result[c]
          /\ err'[c] = err[c] ]_vars

C15_Witness ==
  \E c \in Calls :
    /\ pc[c] = "done" /\ rm[c] = "failed"
    /\ outcome[c] = "returned" /\ result[c].success

\* C16 (as claimed): the executionTime of a result is the time the run step
\* took; the time the compiler took is not part of it.
C16_RunTimeOnly ==
  \A c \in Calls :
    pc[c] = "done" /\ RunEnded(c) => result[c].executionTime = seen[c].run.ms

\* C17 (as claimed): after a run step that failed, exitCode is the exit code
\* of the child process when it has one, and 1 when the child was ended
\* without one; it is never 0.
C17_RawExitCodeOrOne ==
  \A c \in Calls :
    pc[c] = "done" /\ RunEnded(c) /\ seen[c].run.kind # "resolved" =>
      /\ result[c].exitCode # 0
      /\ result[c].exitCode =
           IF seen[c].run.kind = "exit" THEN seen[c].run.code ELSE 1

\* C20: a call starts at most one compiler and at most one program, the
\* compiler first, and the program of a compiled language is started only
\* after the compiler has ended.
C20_CompileThenRunOnce ==
  \A c \in Calls :
    /\ started[c] \in {<< >>, <<"compile">>, <<"run">>, <<"compile", "run">>}
    /\ (PastLanguageCheck(c) /\ HasCompile(args[c].language)) =>
         /\ started[c] # <<"run">>
         /\ started[c] = <<"compile", "run">> => CompileEnded(c)
         /\ pc[c] = "compile" => ~CompileEnded(c) /\ started[c] = <<"compile">>
    /\ (PastLanguageCheck(c) /\ ~HasCompile(args[c].language)) =>
         started[c] \in {<< >>, <<"run">>}

C20_Witness ==
  \E c \in Calls :
    /\ pc[c] = "run" /\ started[c] = <<"compile", "run">>
    /\ seen[c].compile.kind = "resolved"

\* C14: the summary is made from the returned list alone, which it leaves as
\* it is: totalTests is the length of the list, passedTests the number of
\* entries with passed=true, failedTests the rest, successRate
\* passedTests/totalTests*100 (0 for the empty list), totalExecutionTime the
\* sum of the executionTime fields, and allPassed says that no entry failed.
C14_SummaryOfResults ==
  /\ [][tpc = "returned" /\ tpc' = "summarised" => results' = results]_vars
  /\ [](tpc = "summarised" =>
          LET n == Len(results)
              passing == {i \in 1..n : results[i].passed}
              total[k \in 0..n] ==
                IF k = 0 THEN 0 ELSE total[k - 1] + results[k].executionTime
          IN /\ summary.totalTests = n
             /\ summary.passedTests = Cardinality(passing)
             /\ summary.failedTests = n - Cardinality(passing)
             /\ summary.successRate.num * (IF n = 0 THEN 1 ELSE n)
                  = (IF n = 0 THEN 0 ELSE Cardinality(passing) * 100) * summary.successRate.den
             /\ summary.successRate.den > 0
             /\ summary.totalExecutionTime = total[n]
             /\ summary.allPassed <=> passing = 1..n)

C14_Witness ==
  /\ tpc = "summarised"
  /\ summary.totalTests = 2 /\ summary.passedTests = 1 /\ ~summary.allPassed
  /\ summary.totalExecutionTime > 0
  /\ \E i \in 1..2 : results[i].passed /\ ~results[i].success

\* C18: a CodeExecution row leaves the store only by the destroy statement of
\* a cleanup; the row was created before the cleanup's cutoff date, which is
\* the date of the call minus the retention days, and, unless the cleanup
\* was called with ignorePersistent, its isPersistent flag is false.
C18_CleanupSparesPersistentAndRecent ==
  /\ [][ \A id \in DOMAIN executions :
           id \notin DOMAIN executions' =>
             /\ cpc = "destroyEx"
             /\ executions[id].createdAt < cl.cutoffDate
             /\ ~cl.ignorePersistent => ~executions[id].isPersistent ]_vars
  /\ [][ (cpc \in {"idle", "setting"} /\ cpc' = "count")
           => (cl'.cutoffDate = now - cl'.days) ]_vars
  /\ [][ (cpc \notin {"idle", "setting", "done"})
           => (cl'.cutoffDate = cl.cutoffDate) ]_vars

C18_Witness ==
  /\ cpc = "done" /\ ~cl.thrown /\ ~cl.dryRun /\ ~cl.ignorePersistent
  /\ cl.deletedExecutions = 1
  /\ \E id \in DOMAIN executions :
       executions[id].isPersistent /\ executions[id].createdAt < cl.cutoffDate

\* C19: a cleanup called with dryRun changes no row of the store; what it
\* returns has deletedExecutions = 0 and deletedTestCases = 0 and the ids
\* its findAll selected.
C19_DryRunDeletesNothing ==
  /\ [][ (cpc' # cpc /\ cpc # "idle" /\ cl.dryRun)
           => (executions' = executions /\ testRows' = testRows) ]_vars
  /\ [][ (cpc = "find" /\ cpc' # "find" /\ ~cl'.thrown)
           => (cl'.executionIds = Matching(cl)) ]_vars
  /\ [](cpc = "done" /\ cl.dryRun /\ ~cl.thrown =>
          /\ stats.deletedExecutions = 0
          /\ stats.deletedTestCases = 0
          /\ stats.dryRun
          /\ stats.executionIds = cl.executionIds
          /\ cl.deletedExecutions = 0 /\ cl.deletedTestCases = 0)

C19_Witness ==
  /\ cpc = "done" /\ cl.dryRun /\ ~cl.thrown
  /\ stats.executionIds # {} /\ stats.identifiedTestCases > 0
  /\ \A id \in stats.executionIds : id \in DOMAIN executions
  /\ RowsOf(stats.executionIds) # {}

\* C21 (as claimed): after a compiler that exited with a non-zero code or
\* could not be spawned, the call returns a result with success=false, the
\* compiler's stderr (the error's message when that is empty) and the
\* compiler's exit code (1 when there is none), and no program was started.
C21_CompilerFaultResult ==
  \A c \in Calls :
    pc[c] = "done" /\ CompileEnded(c) /\ seen[c].compile.kind \in {"exit", "spawn"} =>
      /\ outcome[c] = "returned"
      /\ ~result[c].success
      /\ result[c].stderr = StrOr(seen[c].compile.stderr, seen[c].compile.message)
      /\ result[c].exitCode =
           IF seen[c].compile.kind = "exit" THEN seen[c].compile.code ELSE 1
      /\ started[c] = <<"compile">>

\* C22 (as claimed): after a compiler that was killed on the timeout, the
\* stderr of the result has the timeout marker appended.
C22_CompileTimeoutMarked ==
  \A c \in Calls :
    pc[c] = "done" /\ CompileEnded(c) /\ seen[c].compile.kind = "timeout" =>
      outcome[c] = "returned" /\ Marked(result[c].stderr)

\* a call that failed while it created or filled its workspace
StagingFailed(c) ==
  /\ outcome[c] = "thrown"
  /\ err[c][1] \in {"EACCES", "Failed to create temporary directory",
                     "Failed to write file", "Failed to write stdin file"}

\* C23 (as claimed): a call that failed while it created or filled its
\* workspace started no process, removed the workspace and ended with an
\* unsuccessful result.
C23_Original ==
  \A c \in Calls :
    pc[c] = "done" /\ err[c] # << >> /\ StagingFailed(c) =>
      /\ started[c] = << >>
      /\ rm[c] = "ok" /\ tempDir[c] \notin dirs
      /\ outcome[c] = "returned" /\ ~result[c].success

\* C23 (amended): a call that failed while it created or filled its
\* workspace started no process and went through the removal of the
\* workspace, which is gone unless the removal failed; the call ends with
\* the error thrown to its caller and returns no result.
C23_StagingFailureThrows ==
  \A c \in Calls :
    pc[c] = "done" /\ err[c] # << >> /\ StagingFailed(c) =>
      /\ started[c] = << >>
      /\ rm[c] # "none"
      /\ rm[c] = "ok" => tempDir[c] \notin dirs
      /\ outcome[c] = "thrown"
      /\ result[c] = InitResult

C23_Witness ==
  \E c \in Calls :
    /\ pc[c] = "done" /\ err[c] = <<"Failed to write stdin file">>
    /\ rm[c] = "ok" /\ Len(args[c].files) = 2

\* C26 (as claimed): the stderr of a result has the timeout marker only when
\* the program was ended for exceeding its timeout.
C26_MarkerOnlyOnTimeout ==
  \A c \in Calls :
    pc[c] = "done" /\ outcome[c] = "returned" /\ Marked(result[c].stderr) =>
      seen[c].run.kind = "timeout"

\* C30 (as claimed): when a process of the call has been started, every
\* submitted file is in the workspace with the content it was submitted
\* with, and so is the stdin file when there is stdin.
C30_SubmittedFilesIntact ==
  \A c \in Calls :
    started[c] # << >> /\ pc[c] \in {"compile", "run"} /\ tempDir[c] \in dirs =>
      /\ \A i \in 1..Len(args[c].files) :
           ContentAt(files, JoinPath(tempDir[c], args[c].files[i].name))
             = args[c].files[i].content
      /\ args[c].stdin # << >> =>
           ContentAt(files, <<tempDir[c], "input.txt">>) = "stdin"

C27_Original ==
  tpc = "summarised" =>
    /\ summary.passedTests <= Cardinality({i \in 1..Len(results) : results[i].success})
    /\ summary.allPassed => \A i \in 1..Len(results) : results[i].success

\* C27 (amended): the entries counted in passedTests are those with
\* passed=true, whether their run succeeded or not: every entry with
\* success=true is among them, and allPassed=true implies passed=true in
\* every entry.
C27_PassedCountsOutputAlone ==
  tpc = "summarised" =>
    LET n == Len(results)
    IN /\ summary.passedTests = Cardinality({i \in 1..n : results[i].passed})
       /\ {i \in 1..n : results[i].success} \subseteq {i \in 1..n : results[i].passed}
       /\ summary.allPassed => \A i \in 1..n : results[i].passed

C27_Witness ==
  /\ tpc = "summarised"
  /\ Len(results) = 2
  /\ summary.allPassed
  /\ \E i \in 1..2 : ~results[i].success /\ results[i].exitCode # 0

\* C28 (as claimed): when a cleanup has ended, every execution whose test
\* cases it deleted is deleted too, and no step deletes an execution and
\* leaves a test case of it behind, whatever updatePersistence and the saving
\* of test cases do in between.
C28_TestCasesGoWithExecution ==
  /\ [](cpc = "done" => \A id \in cl.destroyedFor : id \notin DOMAIN executions)
  /\ [][ \A id \in DOMAIN executions \ DOMAIN executions' :
           \A t \in DOMAIN testRows' : testRows'[t].codeExecutionId # id ]_vars

\* C29 (as claimed): a CodeExecution row has the status "pending" only while
\* the handler that created it has not answered yet.
C29_NoPendingAfterResponse ==
  \A id \in DOMAIN executions :
    executions[id].status = "pending" =>
      id = hid /\ hpc \notin {"idle", "responded"}

\* C25 (as claimed): a getSetting call that began when every updateSetting
\* call so far had completed, during which no other began and whose last
\* query the store did not reject, returns the value of the last of them.
C25_ReadsLastUpdate ==
  \A g \in Getters :
    /\ sget[g].pc = "returned" /\ sget[g].read # "error"
    /\ sget[g].after > 0
    /\ supd.pc = "idle" /\ supd.started = sget[g].after
    => sget[g].ret = supd.last

====
